---- MODULE Spec2Model ----
(***************************************************************************)
(* omitt-chan: the client-side session state of the requirements chat      *)
(* (src/app/page.tsx, and the additive variant in                          *)
(* src/app/page_original_backup.tsx).                                      *)
(*                                                                         *)
(* Every handler of the Home component is a closure over the state of the  *)
(* render in which it was created.  A handler that awaits a fetch resumes  *)
(* with the values of `requirements` it captured when it was invoked, not  *)
(* with the values of the latest render; the state setters it calls apply  *)
(* to the latest state.  The closure of a suspended handler is therefore   *)
(* part of the state (analyzeFetch.requirements).                          *)
(***************************************************************************)
EXTENDS Integers, Sequences, FiniteSets, TLC

\* ---- bounds ----
MaxId == 2            \* item identifiers are 1..MaxId
MaxDocItems == 1      \* total items of a document returned by the oracle / imported
MaxInitItems == 3     \* total items of the store a restored session starts from
MaxChat == 5          \* length of the chat log
MaxArchCalls == 2     \* generate-architecture requests in flight

\* an optional value (T | null, T | undefined) is <<>> or <<value>>
Null == <<>>
Undefined == <<>>
Some(x) == <<x>>

\* StructuredRequirements: the five categories, in declaration order
Cats ==
  <<"functional_requirements", "non_functional_requirements", "constraints",
    "wishes", "design_guidelines">>

CatSet == {Cats[i] : i \in 1..Len(Cats)}

\* RequirementItem (its id; the other fields are carried along untouched)
Items == [id : 1..MaxId]

\* getAllRequirements of a render whose `requirements` is req
getAllRequirements(req) ==
  req.functional_requirements \o req.non_functional_requirements
    \o req.constraints \o req.wishes \o req.design_guidelines

EmptyRequirements == [c \in CatSet |-> <<>>]

\* well-formed documents of at most n items in total
DocsUpTo[n \in Nat] ==
  IF n = 0 THEN {EmptyRequirements}
  ELSE DocsUpTo[n - 1] \cup {[d EXCEPT ![c] = Append(@, it)] :
                               d \in DocsUpTo[n - 1], c \in CatSet, it \in Items}

Docs == DocsUpTo[MaxDocItems]

\* SystemArchitecture values the architecture oracle may return
ArchTypes == {"web", "cloud"}

\* the lists of a SystemArchitecture, of a ValidationResult: empty, or one text
Texts == {<<>>, <<"text">>}

\* SystemComponent[]: no component, or one
Components ==
  {<<>>, <<[name |-> "name", type |-> "backend", technologies |-> <<"text">>,
            description |-> "description"]>>}

\* every SystemArchitecture of the architecture types in types
ArchsOf(types) ==
  [architecture_type : types, deployment_environment : {"cloud"},
   components : Components, network_requirements : Texts,
   security_measures : Texts, scalability_considerations : Texts]

\* the architectures of the oracle's responses and of the saved documents:
\* their lists are empty
Archs ==
  {a \in ArchsOf(ArchTypes) :
     /\ a.components = <<>>
     /\ a.network_requirements = <<>>
     /\ a.security_measures = <<>>
     /\ a.scalability_considerations = <<>>}

\* ChatMessage
Msg(sender, content) == [sender |-> sender, content |-> content]

Greeting == Msg("assistant", "greeting")

VARIABLES
  requirements,               \* useState<StructuredRequirements>
  systemArchitecture,         \* useState<SystemArchitecture | null>
  isAnalyzing,                \* useState(false)
  isGeneratingArchitecture,   \* useState(false)
  chatMessages,               \* useState<ChatMessage[]>
  analyzeFetch,               \* the suspended handleSendMessage, or Null
  archFetches,                \* the suspended generateSystemArchitecture calls
  loadTimers,                 \* pending setTimeout callbacks of an accepted import
  validateFetches,            \* the suspended validateRequirements calls (how many)
  selectedArchitectureType,   \* useState('web'): the type the user prefers
  savedFile,                  \* the file of the last download, or Null
  archCurrent,                \* history: systemArchitecture was computed from, or
                              \* imported with, the store as it is now
  lastOp                      \* history: the handler that ran last, what its
                              \* input was (or its answer, or its category),
                              \* the id and the document it was given

vars ==
  <<requirements, systemArchitecture, isAnalyzing, isGeneratingArchitecture,
    chatMessages, analyzeFetch, archFetches, loadTimers, validateFetches,
    selectedArchitectureType, savedFile, archCurrent, lastOp>>

Init ==
  /\ requirements = EmptyRequirements
  /\ systemArchitecture = Null
  /\ isAnalyzing = FALSE
  /\ isGeneratingArchitecture = FALSE
  /\ chatMessages = <<Greeting>>
  /\ analyzeFetch = Null
  /\ archFetches = <<>>
  /\ loadTimers = 0
  /\ validateFetches = 0
  /\ selectedArchitectureType = "web"
  /\ savedFile = Null
  /\ archCurrent = FALSE
  /\ lastOp = <<"Home", "", 0, Null>>

\* ---- inputs ----

\* the category fields that a defective document does have: all empty, or
\* one functional requirement
DefectiveDocs ==
  {EmptyRequirements,
   [EmptyRequirements EXCEPT !.functional_requirements = <<[id |-> 1]>>]}

\* bodies of /api/analyze-requirements responses; "throw" is a transport
\* error or a body that response.json() cannot parse; absent is the set of
\* category fields the returned document does not have
AnalyzeResponses ==
  {[kind |-> "throw"], [kind |-> "json", success |-> FALSE]}
    \cup {[kind |-> "json", success |-> TRUE, requirements |-> Undefined,
            absent |-> {}]}
    \cup {[kind |-> "json", success |-> TRUE, requirements |-> Some(d),
            absent |-> {}] : d \in Docs}
    \cup {[kind |-> "json", success |-> TRUE, requirements |-> Some(d),
            absent |-> {c}] : d \in DefectiveDocs, c \in CatSet}

\* bodies of /api/generate-architecture responses
ArchResponses ==
  {[kind |-> "throw"], [kind |-> "json", success |-> FALSE]}
    \cup {[kind |-> "json", success |-> TRUE, architecture |-> a] : a \in Archs}

\* ---- page.tsx ----

CanAppend(k) == Len(chatMessages) + k <= MaxChat

\* mutant of generateSystemArchitecture: the request carries the store of
\* the calling render, not the argument
generateSystemArchitectureOfClosure(closure, reqData) ==
  IF Len(getAllRequirements(closure)) = 0
  THEN UNCHANGED <<isGeneratingArchitecture, archFetches>>
  ELSE /\ Len(archFetches) < MaxArchCalls
       /\ isGeneratingArchitecture' = TRUE
       /\ archFetches' = Append(archFetches, [requirements |-> closure])

\* mutant of generateSystemArchitecture: no return on an empty store
generateSystemArchitectureUnguarded(closure, reqData) ==
  LET reqToUse == IF reqData = Undefined THEN closure ELSE reqData[1] IN
  /\ Len(archFetches) < MaxArchCalls
  /\ isGeneratingArchitecture' = TRUE
  /\ archFetches' = Append(archFetches, [requirements |-> reqToUse])

\* generateSystemArchitecture(reqData) up to its await, called from a render
\* whose `requirements` is closure
generateSystemArchitecture(closure, reqData) ==
  LET reqToUse == IF reqData = Undefined THEN closure ELSE reqData[1] IN
  IF Len(getAllRequirements(closure)) = 0
  THEN UNCHANGED <<isGeneratingArchitecture, archFetches>>
  ELSE /\ Len(archFetches) < MaxArchCalls
       /\ isGeneratingArchitecture' = TRUE
       /\ archFetches' = Append(archFetches, [requirements |-> reqToUse])

\* mutant of HasAllCategories: the reads never throw
HasAllCategoriesUnchecked(data) == TRUE

\* the five .length reads of handleSendMessage throw on an absent category
HasAllCategories(data) == data.absent = {}

\* mutant of storeOnSuccess: the returned items are appended to the old store
storeOnSuccessAppending(closure, doc) ==
  [c \in CatSet |-> closure[c] \o doc[c]]

\* what handleSendMessage passes to setRequirements on success
storeOnSuccess(closure, doc) == doc

\* mutant of dataLossWarning: a new total of exactly half also warns
dataLossWarningAtHalf(currentTotal, newTotal) ==
  currentTotal > 0 /\ 2 * newTotal <= currentTotal

\* currentTotal > 0 && newTotal < currentTotal * 0.5
dataLossWarning(currentTotal, newTotal) ==
  currentTotal > 0 /\ 2 * newTotal < currentTotal

\* mutant of handleSendMessage: a message is accepted while a request is in
\* flight
handleSendMessageUnguarded(message) ==
  /\ message # ""
  /\ CanAppend(1)
  /\ chatMessages' = Append(chatMessages, Msg("user", message))
  /\ isAnalyzing' = TRUE
  /\ analyzeFetch' = Some([requirements |-> requirements])
  /\ lastOp' = <<"handleSendMessage", "", 0, Null>>
  /\ UNCHANGED <<validateFetches, archCurrent, selectedArchitectureType, savedFile>>
  /\ UNCHANGED <<requirements, systemArchitecture, isGeneratingArchitecture,
                 archFetches, loadTimers>>

\* handleSendMessage up to its await; message is the text of the input box
handleSendMessage(message) ==
  /\ message # "" /\ ~isAnalyzing
  /\ CanAppend(1)
  /\ chatMessages' = Append(chatMessages, Msg("user", message))
  /\ isAnalyzing' = TRUE
  /\ analyzeFetch' = Some([requirements |-> requirements])
  /\ lastOp' = <<"handleSendMessage", "", 0, Null>>
  /\ UNCHANGED <<validateFetches, archCurrent, selectedArchitectureType, savedFile>>
  /\ UNCHANGED <<requirements, systemArchitecture, isGeneratingArchitecture,
                 archFetches, loadTimers>>

\* String.prototype.trim on the characters of a text: the white space at its
\* start and at its end is removed
RECURSIVE trimStart(_)
trimStart(text) ==
  IF text # <<>> /\ Head(text) = " " THEN trimStart(Tail(text)) ELSE text

RECURSIVE trimEnd(_)
trimEnd(text) ==
  IF text # <<>> /\ text[Len(text)] = " "
  THEN trimEnd(SubSeq(text, 1, Len(text) - 1))
  ELSE text

trim(text) == trimStart(trimEnd(text))

\* the string of a sequence of characters
RECURSIVE StringOf(_)
StringOf(text) ==
  IF text = <<>> THEN "" ELSE Head(text) \o StringOf(Tail(text))

\* handleSendMessage with its early return; currentMessage is the text of
\* the input box, character by character
handleSendMessageCall(currentMessage) ==
  IF trim(currentMessage) = <<>> \/ isAnalyzing
  THEN /\ lastOp' = <<"handleSendMessage", "returned", 0, Null>>
       /\ UNCHANGED <<requirements, systemArchitecture, isAnalyzing,
                      isGeneratingArchitecture, chatMessages, analyzeFetch,
                      archFetches, loadTimers, validateFetches,
                      selectedArchitectureType, savedFile, archCurrent>>
  ELSE handleSendMessage(StringOf(currentMessage))

\* what the response data is, and the document it carries (history only)
ResponseKind(data) ==
  IF data.kind = "throw" THEN "throw"
  ELSE IF ~data.success THEN "failure"
  ELSE IF data.requirements = Undefined THEN "no_requirements"
  ELSE IF data.absent # {} THEN "category_absent"
  ELSE "document"

DocumentOf(data) ==
  IF data.kind = "json" /\ data.success THEN data.requirements ELSE Undefined

\* mutant of handleSendMessageResume: a request that throws leaves no message
handleSendMessageResumeSilent(data) ==
  /\ analyzeFetch # Null
  /\ LET closure == analyzeFetch[1].requirements
         assistantMessage == Msg("assistant", "assistantResponse")
     IN
     IF data.kind = "throw"
     THEN UNCHANGED <<chatMessages, requirements, isGeneratingArchitecture, archFetches>>
     ELSE IF ~data.success
     THEN /\ CanAppend(1)
          /\ chatMessages' = Append(chatMessages, Msg("assistant", "error"))
          /\ UNCHANGED <<requirements, isGeneratingArchitecture, archFetches>>
     ELSE IF data.requirements = Undefined
     THEN /\ CanAppend(1)
          /\ chatMessages' = Append(chatMessages, assistantMessage)
          /\ UNCHANGED <<requirements, isGeneratingArchitecture, archFetches>>
     ELSE IF ~HasAllCategories(data)
     THEN /\ CanAppend(2)
          /\ chatMessages' =
               chatMessages \o <<assistantMessage, Msg("assistant", "network_error")>>
          /\ UNCHANGED <<requirements, isGeneratingArchitecture, archFetches>>
     ELSE LET currentTotal == Len(getAllRequirements(closure))
              tempRequirements == data.requirements[1]
              newTotal ==
                Len(tempRequirements.functional_requirements)
                  + Len(tempRequirements.non_functional_requirements)
                  + Len(tempRequirements.constraints)
                  + Len(tempRequirements.wishes)
                  + Len(tempRequirements.design_guidelines)
              warn == dataLossWarning(currentTotal, newTotal)
          IN
          /\ CanAppend(IF warn THEN 2 ELSE 1)
          /\ chatMessages' =
               chatMessages \o <<assistantMessage>>
                 \o (IF warn THEN <<Msg("assistant", "warning")>> ELSE <<>>)
          /\ requirements' = storeOnSuccess(closure, data.requirements[1])
          /\ generateSystemArchitecture(closure, data.requirements)
  /\ archCurrent' = (archCurrent /\ requirements' = requirements)
  /\ isAnalyzing' = FALSE
  /\ analyzeFetch' = Null
  /\ lastOp' = <<"handleSendMessageResume", ResponseKind(data), 0, DocumentOf(data)>>
  /\ UNCHANGED <<validateFetches, selectedArchitectureType, savedFile>>
  /\ UNCHANGED <<systemArchitecture, loadTimers>>

\* handleSendMessage from its await to its end, for the response data
handleSendMessageResume(data) ==
  /\ analyzeFetch # Null
  /\ LET closure == analyzeFetch[1].requirements
         assistantMessage == Msg("assistant", "assistantResponse")
     IN
     IF data.kind = "throw"
     THEN /\ CanAppend(1)
          /\ chatMessages' = Append(chatMessages, Msg("assistant", "network_error"))
          /\ UNCHANGED <<requirements, isGeneratingArchitecture, archFetches>>
     ELSE IF ~data.success
     THEN /\ CanAppend(1)
          /\ chatMessages' = Append(chatMessages, Msg("assistant", "error"))
          /\ UNCHANGED <<requirements, isGeneratingArchitecture, archFetches>>
     ELSE IF data.requirements = Undefined
     THEN /\ CanAppend(1)
          /\ chatMessages' = Append(chatMessages, assistantMessage)
          /\ UNCHANGED <<requirements, isGeneratingArchitecture, archFetches>>
     ELSE IF ~HasAllCategories(data)
     THEN /\ CanAppend(2)
          /\ chatMessages' =
               chatMessages \o <<assistantMessage, Msg("assistant", "network_error")>>
          /\ UNCHANGED <<requirements, isGeneratingArchitecture, archFetches>>
     ELSE LET currentTotal == Len(getAllRequirements(closure))
              tempRequirements == data.requirements[1]
              newTotal ==
                Len(tempRequirements.functional_requirements)
                  + Len(tempRequirements.non_functional_requirements)
                  + Len(tempRequirements.constraints)
                  + Len(tempRequirements.wishes)
                  + Len(tempRequirements.design_guidelines)
              warn == dataLossWarning(currentTotal, newTotal)
          IN
          /\ CanAppend(IF warn THEN 2 ELSE 1)
          /\ chatMessages' =
               chatMessages \o <<assistantMessage>>
                 \o (IF warn THEN <<Msg("assistant", "warning")>> ELSE <<>>)
          /\ requirements' = storeOnSuccess(closure, data.requirements[1])
          /\ generateSystemArchitecture(closure, data.requirements)
  /\ archCurrent' = (archCurrent /\ requirements' = requirements)
  /\ isAnalyzing' = FALSE
  /\ analyzeFetch' = Null
  /\ lastOp' = <<"handleSendMessageResume", ResponseKind(data), 0, DocumentOf(data)>>
  /\ UNCHANGED <<validateFetches, selectedArchitectureType, savedFile>>
  /\ UNCHANGED <<systemArchitecture, loadTimers>>

\* mutant of generateSystemArchitectureResume: a failure clears the architecture
generateSystemArchitectureResumeClearing(i, result) ==
  /\ i \in 1..Len(archFetches)
  /\ systemArchitecture' =
       IF result.kind = "json" /\ result.success
       THEN Some(result.architecture)
       ELSE Null
  /\ archCurrent' =
       IF result.kind = "json" /\ result.success
       THEN archFetches[i].requirements = requirements
       ELSE FALSE
  /\ isGeneratingArchitecture' = FALSE
  /\ archFetches' = SubSeq(archFetches, 1, i - 1)
                      \o SubSeq(archFetches, i + 1, Len(archFetches))
  /\ lastOp' = <<"generateSystemArchitectureResume",
                 IF result.kind = "json" /\ result.success THEN "success" ELSE "failure",
                 i,
                 IF result.kind = "json" /\ result.success
                 THEN Some(result.architecture) ELSE Null>>
  /\ UNCHANGED <<validateFetches, selectedArchitectureType, savedFile>>
  /\ UNCHANGED <<requirements, isAnalyzing, chatMessages, analyzeFetch, loadTimers>>

\* mutant of generateSystemArchitectureResume: a response is dropped unless
\* its request is the one issued last
generateSystemArchitectureResumeOfLatest(i, result) ==
  /\ i \in 1..Len(archFetches)
  /\ systemArchitecture' =
       IF result.kind = "json" /\ result.success /\ i = Len(archFetches)
       THEN Some(result.architecture)
       ELSE systemArchitecture
  /\ archCurrent' =
       IF result.kind = "json" /\ result.success /\ i = Len(archFetches)
       THEN archFetches[i].requirements = requirements
       ELSE archCurrent
  /\ isGeneratingArchitecture' = FALSE
  /\ archFetches' = SubSeq(archFetches, 1, i - 1)
                      \o SubSeq(archFetches, i + 1, Len(archFetches))
  /\ lastOp' = <<"generateSystemArchitectureResume",
                 IF result.kind = "json" /\ result.success THEN "success" ELSE "failure",
                 i,
                 IF result.kind = "json" /\ result.success
                 THEN Some(result.architecture) ELSE Null>>
  /\ UNCHANGED <<validateFetches, selectedArchitectureType, savedFile>>
  /\ UNCHANGED <<requirements, isAnalyzing, chatMessages, analyzeFetch, loadTimers>>

\* mutant of generateSystemArchitectureResume: the flag is reset after a
\* response that succeeds only
generateSystemArchitectureResumeStuck(i, result) ==
  /\ i \in 1..Len(archFetches)
  /\ systemArchitecture' =
       IF result.kind = "json" /\ result.success
       THEN Some(result.architecture)
       ELSE systemArchitecture
  /\ archCurrent' =
       IF result.kind = "json" /\ result.success
       THEN archFetches[i].requirements = requirements
       ELSE archCurrent
  /\ isGeneratingArchitecture' =
       IF result.kind = "json" /\ result.success
       THEN FALSE
       ELSE isGeneratingArchitecture
  /\ archFetches' = SubSeq(archFetches, 1, i - 1)
                      \o SubSeq(archFetches, i + 1, Len(archFetches))
  /\ lastOp' = <<"generateSystemArchitectureResume",
                 IF result.kind = "json" /\ result.success THEN "success" ELSE "failure",
                 i,
                 IF result.kind = "json" /\ result.success
                 THEN Some(result.architecture) ELSE Null>>
  /\ UNCHANGED <<validateFetches, selectedArchitectureType, savedFile>>
  /\ UNCHANGED <<requirements, isAnalyzing, chatMessages, analyzeFetch, loadTimers>>

\* generateSystemArchitecture from its await to its end: the i-th call in
\* flight resolves with result
generateSystemArchitectureResume(i, result) ==
  /\ i \in 1..Len(archFetches)
  /\ systemArchitecture' =
       IF result.kind = "json" /\ result.success
       THEN Some(result.architecture)
       ELSE systemArchitecture
  /\ archCurrent' =
       IF result.kind = "json" /\ result.success
       THEN archFetches[i].requirements = requirements
       ELSE archCurrent
  /\ isGeneratingArchitecture' = FALSE
  /\ archFetches' = SubSeq(archFetches, 1, i - 1)
                      \o SubSeq(archFetches, i + 1, Len(archFetches))
  /\ lastOp' = <<"generateSystemArchitectureResume",
                 IF result.kind = "json" /\ result.success THEN "success" ELSE "failure",
                 i,
                 IF result.kind = "json" /\ result.success
                 THEN Some(result.architecture) ELSE Null>>
  /\ UNCHANGED <<validateFetches, selectedArchitectureType, savedFile>>
  /\ UNCHANGED <<requirements, isAnalyzing, chatMessages, analyzeFetch, loadTimers>>

\* the regenerate button: generateSystemArchitecture()
regenerate ==
  /\ ~isGeneratingArchitecture
  /\ Len(getAllRequirements(requirements)) # 0
  /\ generateSystemArchitecture(requirements, Undefined)
  /\ lastOp' = <<"generateSystemArchitecture", "", 0, Null>>
  /\ UNCHANGED <<validateFetches, archCurrent, selectedArchitectureType, savedFile>>
  /\ UNCHANGED <<requirements, systemArchitecture, isAnalyzing, chatMessages,
                 analyzeFetch, loadTimers>>

\* generateSystemArchitecture() invoked with no argument, whatever the
\* regenerate button shows
generateSystemArchitectureCall ==
  /\ generateSystemArchitecture(requirements, Undefined)
  /\ lastOp' = <<"generateSystemArchitecture", "", 0, Null>>
  /\ UNCHANGED <<requirements, systemArchitecture, isAnalyzing, chatMessages,
                 analyzeFetch, loadTimers, validateFetches, archCurrent, selectedArchitectureType, savedFile>>

\* mutant of clearAllRequirements: the architecture is kept
clearAllRequirementsKeepingArchitecture(confirmed) ==
  /\ IF confirmed
     THEN requirements' = EmptyRequirements
     ELSE UNCHANGED requirements
  /\ UNCHANGED archCurrent
  /\ lastOp' = <<"clearAllRequirements", IF confirmed THEN "confirmed" ELSE "declined", 0, Null>>
  /\ UNCHANGED <<validateFetches, selectedArchitectureType, savedFile>>
  /\ UNCHANGED <<systemArchitecture, isAnalyzing, isGeneratingArchitecture,
                 chatMessages, analyzeFetch, archFetches, loadTimers>>

\* mutant of clearAllRequirements: the answer to window.confirm is ignored
clearAllRequirementsUnconfirmed(confirmed) ==
  /\ requirements' = EmptyRequirements
  /\ systemArchitecture' = Null
  /\ archCurrent' = FALSE
  /\ lastOp' = <<"clearAllRequirements", IF confirmed THEN "confirmed" ELSE "declined", 0, Null>>
  /\ UNCHANGED <<isAnalyzing, isGeneratingArchitecture, chatMessages,
                 analyzeFetch, archFetches, loadTimers, validateFetches,
                 selectedArchitectureType, savedFile>>

\* mutant of clearAllRequirements: the chat starts over as well
clearAllRequirementsAndChat(confirmed) ==
  /\ IF confirmed
     THEN /\ requirements' = EmptyRequirements
          /\ systemArchitecture' = Null
          /\ archCurrent' = FALSE
          /\ chatMessages' = <<Greeting>>
     ELSE UNCHANGED <<requirements, systemArchitecture, archCurrent, chatMessages>>
  /\ lastOp' = <<"clearAllRequirements", IF confirmed THEN "confirmed" ELSE "declined", 0, Null>>
  /\ UNCHANGED <<validateFetches, selectedArchitectureType, savedFile>>
  /\ UNCHANGED <<isAnalyzing, isGeneratingArchitecture,
                 analyzeFetch, archFetches, loadTimers>>

\* clearAllRequirements; confirmed is the answer to window.confirm
clearAllRequirements(confirmed) ==
  /\ IF confirmed
     THEN /\ requirements' = EmptyRequirements
          /\ systemArchitecture' = Null
          /\ archCurrent' = FALSE
     ELSE UNCHANGED <<requirements, systemArchitecture, archCurrent>>
  /\ lastOp' = <<"clearAllRequirements", IF confirmed THEN "confirmed" ELSE "declined", 0, Null>>
  /\ UNCHANGED <<validateFetches, selectedArchitectureType, savedFile>>
  /\ UNCHANGED <<isAnalyzing, isGeneratingArchitecture, chatMessages,
                 analyzeFetch, archFetches, loadTimers>>

\* requirements[category].filter(req => req.id !== id)
filterOut(items, id) == SelectSeq(items, LAMBDA req : req.id # id)

\* mutant of removeFrom: the id is filtered out of every category
removeFromEveryCategory(req, category, id) ==
  [c \in CatSet |-> filterOut(req[c], id)]

removeFrom(req, category, id) ==
  [req EXCEPT ![category] = filterOut(req[category], id)]

\* mutant of removeRequirement: regenerates whenever the store held an item
removeRequirementRegenerating(category, id) ==
  /\ \E k \in 1..Len(requirements[category]) : requirements[category][k].id = id
  /\ LET newRequirements == removeFrom(requirements, category, id) IN
     /\ requirements' = newRequirements
     /\ IF Len(getAllRequirements(requirements)) > 0
        THEN /\ generateSystemArchitecture(requirements, Some(newRequirements))
             /\ UNCHANGED systemArchitecture
             /\ archCurrent' = (archCurrent /\ newRequirements = requirements)
        ELSE /\ systemArchitecture' = Null
             /\ archCurrent' = FALSE
             /\ UNCHANGED <<isGeneratingArchitecture, archFetches>>
  /\ lastOp' = <<"removeRequirement", category, id, Null>>
  /\ UNCHANGED <<validateFetches, selectedArchitectureType, savedFile>>
  /\ UNCHANGED <<isAnalyzing, chatMessages, analyzeFetch, loadTimers>>

\* removeRequirement(category, id), from the delete button of an item
removeRequirement(category, id) ==
  /\ \E k \in 1..Len(requirements[category]) : requirements[category][k].id = id
  /\ LET newRequirements == removeFrom(requirements, category, id) IN
     /\ requirements' = newRequirements
     /\ IF Len(getAllRequirements(requirements)) > 1
        THEN /\ generateSystemArchitecture(requirements, Some(newRequirements))
             /\ UNCHANGED systemArchitecture
             /\ archCurrent' = (archCurrent /\ newRequirements = requirements)
        ELSE /\ systemArchitecture' = Null
             /\ archCurrent' = FALSE
             /\ UNCHANGED <<isGeneratingArchitecture, archFetches>>
  /\ lastOp' = <<"removeRequirement", category, id, Null>>
  /\ UNCHANGED <<validateFetches, selectedArchitectureType, savedFile>>
  /\ UNCHANGED <<isAnalyzing, chatMessages, analyzeFetch, loadTimers>>

\* contents of the file given to loadRequirementsFromJSON: text that
\* JSON.parse rejects, or an object; absent / notArray are the category
\* fields of its requirements that are missing / present but no array
OptionalArchs == {Null} \cup {Some(x) : x \in Archs}

FilesOf(docs) ==
  {[kind |-> "json", requirements |-> Some(d), absent |-> {},
    notArray |-> {}, systemArchitecture |-> a] :
     d \in docs, a \in OptionalArchs}

DefectiveFiles ==
  {[kind |-> "invalid"]}
    \cup {[kind |-> "json", requirements |-> Undefined, absent |-> {},
            notArray |-> {}, systemArchitecture |-> a] : a \in OptionalArchs}
    \cup {[f EXCEPT !.absent = {c}] : f \in FilesOf(DefectiveDocs), c \in CatSet}
    \cup {[f EXCEPT !.notArray = {c}] : f \in FilesOf(DefectiveDocs), c \in CatSet}

\* mutant of isValidStructure: wishes is not among the required properties
isValidStructureWithoutWishes(file) ==
  \A prop \in CatSet \ {"wishes"} :
    prop \notin file.absent /\ prop \notin file.notArray

\* requiredProperties.every(prop => Array.isArray(loadedRequirements[prop]))
isValidStructure(file) ==
  \A prop \in CatSet : prop \notin file.absent /\ prop \notin file.notArray

\* what the file given to loadRequirementsFromJSON is (history only)
FileKind(file) ==
  IF file.kind = "invalid" THEN "invalid"
  ELSE IF file.requirements = Undefined THEN "no_requirements"
  ELSE IF file.absent # {} THEN "category_absent"
  ELSE IF file.notArray # {} THEN "category_not_array"
  ELSE "well_formed"

\* reader.onload of loadRequirementsFromJSON for the file content
loadRequirementsFromJSON(file) ==
  /\ IF file.kind = "json" /\ file.requirements # Undefined /\ isValidStructure(file)
     THEN /\ requirements' = file.requirements[1]
          /\ systemArchitecture' =
               IF file.systemArchitecture # Null
               THEN file.systemArchitecture
               ELSE systemArchitecture
          /\ archCurrent' =
               IF file.systemArchitecture # Null
               THEN TRUE
               ELSE archCurrent /\ file.requirements[1] = requirements
          /\ loadTimers' = loadTimers + 1
          /\ UNCHANGED chatMessages
     ELSE /\ CanAppend(1)
          /\ chatMessages' = Append(chatMessages, Msg("assistant", "load_error"))
          /\ UNCHANGED <<requirements, systemArchitecture, archCurrent, loadTimers>>
  /\ lastOp' = <<"loadRequirementsFromJSON", FileKind(file), 0, Null>>
  /\ UNCHANGED <<validateFetches, selectedArchitectureType, savedFile>>
  /\ UNCHANGED <<isAnalyzing, isGeneratingArchitecture, analyzeFetch, archFetches>>

\* the setTimeout callback of an accepted import
loadTimeout ==
  /\ loadTimers > 0
  /\ CanAppend(1)
  /\ chatMessages' = Append(chatMessages, Msg("assistant", "load_ok"))
  /\ loadTimers' = loadTimers - 1
  /\ lastOp' = <<"loadTimeout", "", 0, Null>>
  /\ UNCHANGED <<validateFetches, archCurrent, selectedArchitectureType, savedFile>>
  /\ UNCHANGED <<requirements, systemArchitecture, isAnalyzing,
                 isGeneratingArchitecture, analyzeFetch, archFetches>>

\* ---- page_original_backup.tsx ----

\* mutant of mergeAdditive: the returned document replaces the store
mergeAdditiveReplacing(closure, doc) == doc

\* the five spreads of handleSendMessage: the old store's items followed by
\* the returned items, per category
mergeAdditive(closure, doc) ==
  [c \in CatSet |-> closure[c] \o doc[c]]

\* handleSendMessage of page_original_backup.tsx from its await to its end
handleSendMessageResumeBackup(result) ==
  /\ analyzeFetch # Null
  /\ CanAppend(1)
  /\ LET closure == analyzeFetch[1].requirements IN
     IF result.kind = "throw"
     THEN /\ chatMessages' = Append(chatMessages, Msg("assistant", "network_error"))
          /\ UNCHANGED <<requirements, isGeneratingArchitecture, archFetches>>
     ELSE IF ~result.success
     THEN /\ chatMessages' = Append(chatMessages, Msg("assistant", "error"))
          /\ UNCHANGED <<requirements, isGeneratingArchitecture, archFetches>>
     ELSE IF result.requirements = Undefined \/ ~HasAllCategories(result)
     THEN /\ chatMessages' = Append(chatMessages, Msg("assistant", "network_error"))
          /\ UNCHANGED <<requirements, isGeneratingArchitecture, archFetches>>
     ELSE LET newRequirements == mergeAdditive(closure, result.requirements[1]) IN
          /\ requirements' = newRequirements
          /\ IF Len(getAllRequirements(closure)) > 0
             THEN generateSystemArchitecture(closure, Some(newRequirements))
             ELSE UNCHANGED <<isGeneratingArchitecture, archFetches>>
          /\ chatMessages' = Append(chatMessages, Msg("assistant", "assistantResponse"))
  /\ archCurrent' = (archCurrent /\ requirements' = requirements)
  /\ isAnalyzing' = FALSE
  /\ analyzeFetch' = Null
  /\ lastOp' = <<"handleSendMessageResume", ResponseKind(result), 0, DocumentOf(result)>>
  /\ UNCHANGED <<validateFetches, selectedArchitectureType, savedFile>>
  /\ UNCHANGED <<systemArchitecture, loadTimers>>

\* bodies of /api/validate-requirements responses, as page.tsx reads them
ValidateResponses ==
  {[kind |-> "throw"], [kind |-> "json", success |-> FALSE],
   [kind |-> "json", success |-> TRUE]}

\* mutant of validateRequirements: a request is sent for an empty store too
validateRequirementsOfAnyStore ==
  /\ CanAppend(1)
  /\ isAnalyzing' = TRUE
  /\ validateFetches' = validateFetches + 1
  /\ lastOp' = <<"validateRequirements", "", 0, Null>>
  /\ UNCHANGED <<requirements, systemArchitecture, isGeneratingArchitecture,
                 chatMessages, analyzeFetch, archFetches, loadTimers, archCurrent,
                 selectedArchitectureType, savedFile>>

\* validateRequirements up to its return or its await
validateRequirements ==
  /\ CanAppend(1)
  /\ IF Len(getAllRequirements(requirements)) = 0
     THEN /\ chatMessages' = Append(chatMessages, Msg("assistant", "nothing_to_validate"))
          /\ UNCHANGED <<isAnalyzing, validateFetches>>
     ELSE /\ isAnalyzing' = TRUE
          /\ validateFetches' = validateFetches + 1
          /\ UNCHANGED chatMessages
  /\ lastOp' = <<"validateRequirements", "", 0, Null>>
  /\ UNCHANGED <<requirements, systemArchitecture, isGeneratingArchitecture,
                 analyzeFetch, archFetches, loadTimers, archCurrent,
                 selectedArchitectureType, savedFile>>

\* mutant of validateRequirementsResume: a validation that did not succeed
\* discards the architecture
validateRequirementsResumeAndReset(data) ==
  /\ validateFetches > 0
  /\ CanAppend(1)
  /\ chatMessages' =
       Append(chatMessages,
              Msg("assistant",
                  IF data.kind = "throw" THEN "validation_network_error"
                  ELSE IF data.success THEN "chatMessage"
                  ELSE "validation_error"))
  /\ isAnalyzing' = FALSE
  /\ validateFetches' = validateFetches - 1
  /\ systemArchitecture' =
       IF data.kind # "throw" /\ data.success THEN systemArchitecture ELSE Null
  /\ lastOp' = <<"validateRequirementsResume",
                 IF data.kind = "throw" THEN "throw"
                 ELSE IF data.success THEN "success" ELSE "failure",
                 0, Null>>
  /\ UNCHANGED <<requirements, isGeneratingArchitecture,
                 analyzeFetch, archFetches, loadTimers, archCurrent,
                 selectedArchitectureType, savedFile>>

\* validateRequirements from its await to its end: a call in flight resolves
\* with data
validateRequirementsResume(data) ==
  /\ validateFetches > 0
  /\ CanAppend(1)
  /\ chatMessages' =
       Append(chatMessages,
              Msg("assistant",
                  IF data.kind = "throw" THEN "validation_network_error"
                  ELSE IF data.success THEN "chatMessage"
                  ELSE "validation_error"))
  /\ isAnalyzing' = FALSE
  /\ validateFetches' = validateFetches - 1
  /\ lastOp' = <<"validateRequirementsResume",
                 IF data.kind = "throw" THEN "throw"
                 ELSE IF data.success THEN "success" ELSE "failure",
                 0, Null>>
  /\ UNCHANGED <<requirements, systemArchitecture, isGeneratingArchitecture,
                 analyzeFetch, archFetches, loadTimers, archCurrent,
                 selectedArchitectureType, savedFile>>

\* the validate button: shown while the store has items, disabled while
\* isAnalyzing
validate ==
  /\ Len(getAllRequirements(requirements)) > 0
  /\ ~isAnalyzing
  /\ validateRequirements

\* what JSON.parse reads from JSON.stringify(exportData): the requirements
\* with their five arrays, and systemArchitecture, which is null when absent
exportData ==
  [kind |-> "json", requirements |-> Some(requirements), absent |-> {},
   notArray |-> {}, systemArchitecture |-> systemArchitecture]

\* saveRequirementsAsJSON: the download, and its message in the chat
saveRequirementsAsJSON ==
  /\ CanAppend(1)
  /\ savedFile' = Some(exportData)
  /\ chatMessages' = Append(chatMessages, Msg("assistant", "saved"))
  /\ lastOp' = <<"saveRequirementsAsJSON", "", 0, Null>>
  /\ UNCHANGED <<requirements, systemArchitecture, isAnalyzing,
                 isGeneratingArchitecture, analyzeFetch, archFetches, loadTimers,
                 validateFetches, archCurrent, selectedArchitectureType>>

\* the load button, for the file of the last download
loadSavedFile ==
  /\ savedFile # Null
  /\ loadRequirementsFromJSON(savedFile[1])

\* the save button: shown while the store has items
save ==
  /\ Len(getAllRequirements(requirements)) > 0
  /\ saveRequirementsAsJSON

\* ---- api/validate-requirements/route.ts ----

\* completeness_score is a number of points out of 100, and 50 points pass
MaxScore == 100
PassScore == 50

\* ValidationResult, as the oracle may return it; each of the four lists is
\* empty or holds one text
Validations ==
  [overall_status : {"good", "warning", "critical"},
   completeness_score : 0..MaxScore,
   system_type_missing : BOOLEAN,
   personal_data_missing : BOOLEAN,
   user_scope_missing : BOOLEAN,
   missing_requirements : Texts,
   contradictions : Texts,
   unclear_requirements : Texts,
   recommendations : Texts]

\* a piece of the message: a fixed text of the template, or a text or a number
\* that the template interpolates
Line(template, text, number) == <<template, text, number>>

Heading(template) == Line(template, "", 0)

\* validation.X.forEach(x => message += bullet x), under its heading
Section(template, texts) ==
  IF Len(texts) > 0
  THEN <<Heading(template)>> \o [k \in 1..Len(texts) |-> Line("bullet", texts[k], 0)]
  ELSE <<>>

\* mutant of isPassing: 50 points do not pass
isPassingAbove(score) == score > PassScore

\* validation.completeness_score >= 50
isPassing(score) == score >= PassScore

\* generateChatMessage(validation): the message, piece by piece
generateChatMessage(validation) ==
  LET hasCriticalQuestions ==
        \/ validation.system_type_missing
        \/ validation.personal_data_missing
        \/ validation.user_scope_missing
  IN
  <<Heading("title"),
    Line("overall", validation.overall_status, validation.completeness_score)>>
    \o (IF isPassing(validation.completeness_score)
        THEN <<Heading("judgement: pass")>>
        ELSE <<Heading("judgement: review")>>)
    \o (IF hasCriticalQuestions
        THEN <<Heading("critical questions")>>
               \o (IF validation.system_type_missing
                   THEN <<Heading("question: new or migration")>> ELSE <<>>)
               \o (IF validation.personal_data_missing
                   THEN <<Heading("question: personal data")>> ELSE <<>>)
               \o (IF validation.user_scope_missing
                   THEN <<Heading("question: user scope")>> ELSE <<>>)
        ELSE <<>>)
    \o Section("missing requirements", validation.missing_requirements)
    \o Section("contradictions", validation.contradictions)
    \o Section("unclear requirements", validation.unclear_requirements)
    \o Section("recommendations", validation.recommendations)
    \o (IF isPassing(validation.completeness_score)
        THEN IF validation.overall_status = "good"
             THEN <<Heading("closing: well organised")>>
             ELSE IF validation.overall_status = "warning"
             THEN <<Heading("closing: some improvements")>>
             ELSE <<Heading("closing: basics in place")>>
        ELSE <<Heading("closing: many open questions")>>)

\* POST of /api/validate-requirements once the oracle has answered with
\* validation: the chatMessage of the response is kept in lastOp
validateRoute(validation) ==
  /\ lastOp' = <<"generateChatMessage", validation.overall_status,
                 validation.completeness_score, Some(generateChatMessage(validation))>>
  /\ UNCHANGED <<requirements, systemArchitecture, isAnalyzing,
                 isGeneratingArchitecture, chatMessages, analyzeFetch, archFetches,
                 loadTimers, validateFetches, archCurrent, selectedArchitectureType, savedFile>>

\* ---- page.tsx: the estimate request ----

\* the select of the architecture type
setSelectedArchitectureType(type) ==
  /\ selectedArchitectureType' = type
  /\ lastOp' = <<"setSelectedArchitectureType", type, 0, Null>>
  /\ UNCHANGED <<requirements, systemArchitecture, isAnalyzing,
                 isGeneratingArchitecture, chatMessages, analyzeFetch, archFetches,
                 loadTimers, validateFetches, archCurrent, savedFile>>

\* the fixed text shown while there is nothing to estimate
PlaceholderTemplate == <<Heading("placeholder")>>

\* the project overview names the kind of system
SystemKind(type) ==
  IF type = "web" THEN "web application"
  ELSE IF type = "cloud" THEN "cloud native system"
  ELSE IF type = "hybrid" THEN "hybrid system"
  ELSE IF type = "embedded" THEN "embedded system"
  ELSE IF type = "mobile_app" THEN "smartphone application"
  ELSE IF type = "game" THEN "game application"
  ELSE IF type = "other" THEN "other system"
  ELSE "on-premise system"

\* a header with the number of items, and one piece for each item
Requirements(template, items) ==
  <<Line(template, "", Len(items))>>
    \o [k \in 1..Len(items) |-> Line("requirement", "", items[k].id)]

\* a header, and one piece for each text
Bullets(template, texts) ==
  <<Heading(template)>> \o [k \in 1..Len(texts) |-> Line("bullet", texts[k], 0)]

\* mutant of generateEstimateTemplate: the placeholder also while a category
\* that the text lists is empty
generateEstimateTemplateOfFilledStore ==
  IF \/ systemArchitecture = Null
     \/ Len(getAllRequirements(requirements)) = 0
     \/ Len(requirements.functional_requirements) = 0
     \/ Len(requirements.non_functional_requirements) = 0
     \/ Len(requirements.constraints) = 0
  THEN PlaceholderTemplate
  ELSE <<Heading("estimate request")>>

\* mutant of generateEstimateTemplate: the overview names the type the user
\* has selected
generateEstimateTemplateOfSelectedType ==
  IF systemArchitecture = Null \/ Len(getAllRequirements(requirements)) = 0
  THEN PlaceholderTemplate
  ELSE <<Heading("estimate request"),
         Line("project overview", SystemKind(selectedArchitectureType), 0)>>

\* generateEstimateTemplate(): the text of the estimate request, piece by
\* piece, for the state of the current render
generateEstimateTemplate ==
  IF systemArchitecture = Null \/ Len(getAllRequirements(requirements)) = 0
  THEN PlaceholderTemplate
  ELSE LET architecture == systemArchitecture[1] IN
       <<Heading("estimate request"),
         Line("project overview", SystemKind(architecture.architecture_type), 0)>>
         \o Requirements("functional requirements", requirements.functional_requirements)
         \o Requirements("non-functional requirements",
                         requirements.non_functional_requirements)
         \o Requirements("constraints", requirements.constraints)
         \o <<Line("architecture type", architecture.architecture_type, 0),
              Line("deployment environment", architecture.deployment_environment, 0),
              Line("system components", "", Len(architecture.components))>>
         \o [k \in 1..Len(architecture.components) |->
               Line("component", architecture.components[k].name,
                    Len(architecture.components[k].technologies))]
         \o Bullets("network requirements", architecture.network_requirements)
         \o Bullets("security measures", architecture.security_measures)
         \o Bullets("scalability considerations",
                    architecture.scalability_considerations)
         \o <<Heading("closing")>>

\* const estimateTemplate = generateEstimateTemplate(), in every render
estimateTemplate == generateEstimateTemplate

\* ---- specifications ----

AtStart == lastOp = <<"Home", "", 0, Null>>

\* the session opens with the import of a saved document
restoreSession(docs) ==
  /\ AtStart
  /\ \E file \in FilesOf(docs) : loadRequirementsFromJSON(file)

\* the user acts once the timer of the import has fired (100 ms)
Settled == loadTimers = 0

\* sending messages (page.tsx), in a session that may have been restored
NextSend ==
  \/ restoreSession(Docs)
  \/ loadTimeout
  \/ Settled /\ \E m \in {"", "text"} : handleSendMessage(m)
  \/ \E data \in AnalyzeResponses : handleSendMessageResume(data)
  \/ \E i \in 1..MaxArchCalls, result \in ArchResponses :
       generateSystemArchitectureResume(i, result)

SpecSend == Init /\ [][NextSend]_vars

\* saved documents of up to MaxInitItems items, all of them functional
\* requirements or design guidelines
WarnStores ==
  {d \in DocsUpTo[MaxInitItems] :
     \A c \in CatSet \ {"functional_requirements", "design_guidelines"} : d[c] = <<>>}

\* one message (page.tsx) in a session restored with up to MaxInitItems items
NextWarn ==
  \/ restoreSession(WarnStores)
  \/ loadTimeout
  \/ Settled /\ \E m \in {"", "text"} : handleSendMessage(m)
  \/ \E data \in AnalyzeResponses : handleSendMessageResume(data)

SpecWarn == Init /\ [][NextWarn]_vars

\* deleting, clearing and regenerating (page.tsx), in a restored session
NextDelete ==
  \/ restoreSession(DocsUpTo[MaxInitItems])
  \/ loadTimeout
  \/ Settled /\ \E c \in CatSet, id \in 1..MaxId : removeRequirement(c, id)
  \/ Settled /\ \E b \in BOOLEAN : clearAllRequirements(b)
  \/ \E i \in 1..MaxArchCalls, result \in ArchResponses :
       generateSystemArchitectureResume(i, result)

SpecDelete == Init /\ [][NextDelete]_vars

\* importing (page.tsx): a saved document when the session opens, files
\* that are no saved document at any time
NextImport ==
  \/ restoreSession(Docs)
  \/ Settled /\ \E file \in DefectiveFiles : loadRequirementsFromJSON(file)
  \/ loadTimeout
  \/ Settled /\ \E b \in BOOLEAN : clearAllRequirements(b)

SpecImport == Init /\ [][NextImport]_vars

\* sending and validating (page.tsx), in a session that may have been restored
NextValidate ==
  \/ restoreSession(Docs)
  \/ loadTimeout
  \/ Settled /\ \E m \in {"", "text"} : handleSendMessage(m)
  \/ \E data \in AnalyzeResponses : handleSendMessageResume(data)
  \/ Settled /\ validate
  \/ \E data \in ValidateResponses : validateRequirementsResume(data)
  \/ \E i \in 1..MaxArchCalls, result \in ArchResponses :
       generateSystemArchitectureResume(i, result)

SpecValidate == Init /\ [][NextValidate]_vars

\* the empty document and the documents of one functional requirement
SessionDocs ==
  {d \in DocsUpTo[1] : \A c \in CatSet \ {"functional_requirements"} : d[c] = <<>>}

\* the saved documents a session is restored from: such a document, or the
\* document of two functional requirements
SessionStores ==
  SessionDocs
    \cup {[EmptyRequirements EXCEPT
             !.functional_requirements = <<[id |-> 1], [id |-> 2]>>]}

\* the responses of /api/analyze-requirements with such a document, or none;
\* a document that lacks a category lacks wishes
SessionResponses ==
  {data \in AnalyzeResponses :
     DocumentOf(data) # Null =>
       DocumentOf(data)[1] \in SessionDocs /\ data.absent \subseteq {"wishes"}}

\* files that are no saved document: text that is no JSON, an object without
\* requirements, a document whose wishes are missing or no array
SessionFiles ==
  {file \in DefectiveFiles :
     file.kind = "json" =>
       /\ file.systemArchitecture = Null
       /\ file.absent \subseteq {"wishes"}
       /\ file.notArray \subseteq {"wishes"}}

\* every operation of the page (page.tsx), in a session that may have been
\* restored
NextSession ==
  \/ restoreSession(SessionDocs)
  \/ Settled /\ \E file \in SessionFiles : loadRequirementsFromJSON(file)
  \/ loadTimeout
  \/ Settled /\ \E m \in {"", "text"} : handleSendMessage(m)
  \/ \E data \in SessionResponses : handleSendMessageResume(data)
  \/ Settled /\ validate
  \/ \E data \in ValidateResponses : validateRequirementsResume(data)
  \/ Settled /\ save
  \/ Settled /\ regenerate
  \/ Settled /\ \E c \in CatSet, id \in 1..MaxId : removeRequirement(c, id)
  \/ Settled /\ \E b \in BOOLEAN : clearAllRequirements(b)
  \/ \E i \in 1..MaxArchCalls, result \in ArchResponses :
       generateSystemArchitectureResume(i, result)

SpecSession == Init /\ [][NextSession]_vars

\* the requests of the page (page.tsx) and their responses, each request
\* issued while the chat has room for the messages of its response
NextLive ==
  \/ restoreSession(SessionStores)
  \/ loadTimeout
  \/ Settled /\ CanAppend(3) /\ \E m \in {"", "text"} : handleSendMessage(m)
  \/ \E data \in SessionResponses : handleSendMessageResume(data)
  \/ Settled /\ validate
  \/ \E data \in ValidateResponses : validateRequirementsResume(data)
  \/ Settled /\ regenerate
  \/ \E i \in 1..MaxArchCalls, result \in ArchResponses :
       generateSystemArchitectureResume(i, result)

\* every request in flight is answered: the fetch of each handler resolves
\* or rejects
SpecLive ==
  /\ Init
  /\ [][NextLive]_vars
  /\ WF_vars(\E data \in SessionResponses : handleSendMessageResume(data))
  /\ WF_vars(\E data \in ValidateResponses : validateRequirementsResume(data))
  /\ WF_vars(\E i \in 1..MaxArchCalls, result \in ArchResponses :
               generateSystemArchitectureResume(i, result))

\* architecture types the estimate request names: the first and one more of
\* the named ones, and the one that is named by default
EstimateTypes == {"web", "game", "on_premise"}

\* saved documents of at most MaxDocItems items or of two functional
\* requirements, with no architecture, or with an architecture whose lists
\* are empty or not
EstimateFiles ==
  {[kind |-> "json", requirements |-> Some(d), absent |-> {},
    notArray |-> {}, systemArchitecture |-> a] :
     d \in Docs \cup SessionStores, a \in {Null} \cup {Some(x) : x \in ArchsOf(EstimateTypes)}}

\* the estimate request (page.tsx) of a restored session, while the user
\* deletes and clears
NextEstimate ==
  \/ AtStart /\ \E file \in EstimateFiles : loadRequirementsFromJSON(file)
  \/ loadTimeout
  \/ Settled /\ \E c \in CatSet, id \in 1..MaxId : removeRequirement(c, id)
  \/ Settled /\ \E b \in BOOLEAN : clearAllRequirements(b)
  \/ \E i \in 1..MaxArchCalls, result \in ArchResponses :
       generateSystemArchitectureResume(i, result)

SpecEstimate == Init /\ [][NextEstimate]_vars

\* saved documents with no, one and two items in the categories the estimate
\* request lists
RenderStores ==
  SessionStores
    \cup {[EmptyRequirements EXCEPT
             !.non_functional_requirements = <<[id |-> 1]>>,
             !.constraints = <<[id |-> 1], [id |-> 2]>>]}

\* the estimate request (page.tsx) of a restored session, while the user
\* selects a type, saves, validates and regenerates
NextRender ==
  \/ restoreSession(RenderStores)
  \/ loadTimeout
  \/ \E type \in EstimateTypes : setSelectedArchitectureType(type)
  \/ Settled /\ save
  \/ Settled /\ validate
  \/ \E data \in ValidateResponses : validateRequirementsResume(data)
  \/ Settled /\ regenerate
  \/ \E i \in 1..MaxArchCalls, result \in ArchResponses :
       generateSystemArchitectureResume(i, result)

SpecRender == Init /\ [][NextRender]_vars

\* saving and loading (page.tsx): the session is restored, saved, changed
\* and the saved file is loaded again
NextRoundTrip ==
  \/ restoreSession(SessionStores)
  \/ loadTimeout
  \/ Settled /\ save
  \/ Settled /\ loadSavedFile
  \/ Settled /\ regenerate
  \/ \E i \in 1..MaxArchCalls, result \in ArchResponses :
       generateSystemArchitectureResume(i, result)
  \/ Settled /\ \E c \in CatSet, id \in 1..MaxId : removeRequirement(c, id)
  \/ Settled /\ \E b \in BOOLEAN : clearAllRequirements(b)

SpecRoundTrip == Init /\ [][NextRoundTrip]_vars

\* the handlers called directly (page.tsx), as a test of the component's
\* functions calls them, in a session that may have been restored
NextCalls ==
  \/ restoreSession(Docs)
  \/ loadTimeout
  \/ Settled /\ generateSystemArchitectureCall
  \/ Settled /\ \E b \in BOOLEAN : clearAllRequirements(b)
  \/ \E i \in 1..MaxArchCalls, result \in ArchResponses :
       generateSystemArchitectureResume(i, result)

SpecCalls == Init /\ [][NextCalls]_vars

\* validateRequirements calls in flight in a session of direct calls
MaxValidateCalls == 2

\* validateRequirements and saveRequirementsAsJSON called directly (page.tsx),
\* whatever the buttons show, in a session that may have been restored
NextValidateCalls ==
  \/ restoreSession(Docs)
  \/ loadTimeout
  \/ Settled /\ validateFetches < MaxValidateCalls /\ validateRequirements
  \/ \E data \in ValidateResponses : validateRequirementsResume(data)
  \/ Settled /\ saveRequirementsAsJSON
  \/ Settled /\ \E b \in BOOLEAN : clearAllRequirements(b)

SpecValidateCalls == Init /\ [][NextValidateCalls]_vars

\* the texts of the input box: at most MaxMessageLen characters, each a
\* space or a letter
MaxMessageLen == 2

Messages ==
  UNION {[1..n -> {" ", "t"}] : n \in 0..MaxMessageLen}

\* handleSendMessage called with every text (page.tsx), while the chat has
\* room for the messages of a response, and the responses
NextChat ==
  \/ restoreSession(SessionStores)
  \/ loadTimeout
  \/ Settled /\ \E currentMessage \in Messages :
       /\ trim(currentMessage) = <<>> \/ isAnalyzing \/ CanAppend(3)
       /\ handleSendMessageCall(currentMessage)
  \/ \E data \in SessionResponses : handleSendMessageResume(data)
  \/ \E i \in 1..MaxArchCalls, result \in ArchResponses :
       generateSystemArchitectureResume(i, result)

\* every request in flight is answered
SpecChat ==
  /\ Init
  /\ [][NextChat]_vars
  /\ WF_vars(\E data \in SessionResponses : handleSendMessageResume(data))
  /\ WF_vars(\E i \in 1..MaxArchCalls, result \in ArchResponses :
               generateSystemArchitectureResume(i, result))

\* page_original_backup.tsx; its handleSendMessage up to the await, its
\* generateSystemArchitecture, removeRequirement and clearAllRequirements are
\* the same text as in page.tsx
NextBackup ==
  \/ \E m \in {"", "text"} : handleSendMessage(m)
  \/ \E result \in AnalyzeResponses : handleSendMessageResumeBackup(result)
  \/ \E i \in 1..MaxArchCalls, result \in ArchResponses :
       generateSystemArchitectureResume(i, result)

SpecBackup == Init /\ [][NextBackup]_vars

\* page_original_backup.tsx with deletions: items are removed and the store
\* is cleared while a message is being analysed
NextBackupDelete ==
  \/ \E m \in {"", "text"} : handleSendMessage(m)
  \/ \E result \in AnalyzeResponses : handleSendMessageResumeBackup(result)
  \/ \E c \in CatSet, id \in 1..MaxId : removeRequirement(c, id)
  \/ \E b \in BOOLEAN : clearAllRequirements(b)
  \/ \E i \in 1..MaxArchCalls, result \in ArchResponses :
       generateSystemArchitectureResume(i, result)

SpecBackupDelete == Init /\ [][NextBackupDelete]_vars

\* one request to /api/validate-requirements, for every answer of the oracle
NextRoute == AtStart /\ \E validation \in Validations : validateRoute(validation)

SpecRoute == Init /\ [][NextRoute]_vars

\* ---- properties ----
\* lastOp names the handler that took the step, and what it was given

Total(req) == Len(getAllRequirements(req))

LastMessage == chatMessages[Len(chatMessages)]

\* the step is handleSendMessage resuming with a response of one of kinds
Resumed(kinds) ==
  lastOp'[1] = "handleSendMessageResume" /\ lastOp'[2] \in kinds

\* the step is removeRequirement(lastOp'[2], lastOp'[3])
Removed == lastOp'[1] = "removeRequirement"

C2_ReplaceStoreEqualsDocument ==
  [][Resumed({"document"}) =>
       \A c \in CatSet : requirements'[c] = lastOp'[4][1][c]]_vars

\* the first message of a session, answered with one functional requirement:
\* the store holds that item and nothing else
C2_Witness ==
  /\ lastOp[1] = "handleSendMessageResume"
  /\ lastOp[2] = "document"
  /\ chatMessages =
       <<Greeting, Msg("user", "text"), Msg("assistant", "assistantResponse")>>
  /\ Len(lastOp[4][1].functional_requirements) = 1
  /\ Len(requirements.functional_requirements) = 1
  /\ \A c \in CatSet \ {"functional_requirements"} : requirements[c] = <<>>

KeptIndexes(items, id) == {k \in 1..Len(items) : items[k].id # id}

\* the index in items of the j-th item whose identifier is not id
NthKept(items, id, j) ==
  CHOOSE k \in KeptIndexes(items, id) :
    Cardinality({m \in KeptIndexes(items, id) : m <= k}) = j

C4_ClearAllEmpties ==
  (lastOp[1] = "clearAllRequirements" /\ lastOp[2] = "confirmed") =>
    /\ \A c \in CatSet : requirements[c] = <<>>
    /\ systemArchitecture = Null

\* the store was cleared while a generation request for it was in flight
C4_Witness ==
  /\ lastOp[1] = "clearAllRequirements"
  /\ lastOp[2] = "confirmed"
  /\ isGeneratingArchitecture
  /\ \E k \in 1..Len(archFetches) : Total(archFetches[k].requirements) > 0

\* C5 as stated: a deletion that leaves zero or one item clears the
\* architecture and sends no generation request.
C5_ClearWhenAtMostOneRemains ==
  [][(Removed /\ Total(requirements') <= 1) =>
       /\ systemArchitecture' = Null
       /\ archFetches' = archFetches]_vars

\* C5 amended: a deletion from a store that holds at most one item (the
\* deletion empties it) clears the architecture and sends no generation
\* request; a deletion from a store of two or more items sends one and keeps
\* the architecture, however many items it leaves.
C5_ClearWhenAtMostOneBefore ==
  [][Removed =>
       IF Total(requirements) <= 1
       THEN /\ systemArchitecture' = Null
            /\ archFetches' = archFetches
            /\ isGeneratingArchitecture' = isGeneratingArchitecture
       ELSE /\ systemArchitecture' = systemArchitecture
            /\ Len(archFetches') = Len(archFetches) + 1]_vars

\* the only item was deleted: the store is empty, the architecture absent
\* and no request in flight
C5_Witness ==
  /\ lastOp[1] = "removeRequirement"
  /\ Total(requirements) = 0
  /\ systemArchitecture = Null
  /\ archFetches = <<>>
  /\ ~isGeneratingArchitecture

\* C6: a deletion that leaves more than one item issues exactly one
\* generation request, whose payload is the store after the deletion, and
\* does not clear the architecture.
C6_RegenerateWithPostDeletionStore ==
  [][(Removed /\ Total(requirements') > 1) =>
       /\ archFetches' = Append(archFetches, [requirements |-> requirements'])
       /\ isGeneratingArchitecture'
       /\ systemArchitecture' = systemArchitecture]_vars

\* two items remain after a deletion, the request carries them and the
\* architecture is still present
C6_Witness ==
  /\ lastOp[1] = "removeRequirement"
  /\ Total(requirements) = 2
  /\ archFetches = <<[requirements |-> requirements]>>
  /\ systemArchitecture # Null

\* C7: a successful response that leaves the store non-empty issues exactly
\* one generation request, carrying the new store.
C7_GenerationAfterEveryMerge ==
  [][(Resumed({"document"}) /\ Total(requirements') > 0) =>
       archFetches' = Append(archFetches, [requirements |-> requirements'])]_vars

\* C8: a failed extraction (transport error, failure envelope, document
\* lacking a category) leaves the store and the architecture as they were,
\* in the step that sends and in the step that resumes, sends no generation
\* request, and the resuming step ends the chat log with an assistant error
\* message.
C8_FailedExtractionKeepsState ==
  [][/\ lastOp'[1] = "handleSendMessage" =>
          /\ requirements' = requirements
          /\ systemArchitecture' = systemArchitecture
     /\ Resumed({"throw", "failure", "category_absent"}) =>
          /\ requirements' = requirements
          /\ systemArchitecture' = systemArchitecture
          /\ archFetches' = archFetches
          /\ Len(chatMessages') > Len(chatMessages)
          /\ SubSeq(chatMessages', 1, Len(chatMessages)) = chatMessages
          /\ chatMessages'[Len(chatMessages')] \in
               {Msg("assistant", "network_error"), Msg("assistant", "error")}]_vars

\* a document lacking a category arrived in a session that holds items and
\* an architecture
C8_Witness ==
  /\ lastOp[1] = "handleSendMessageResume"
  /\ lastOp[2] = "category_absent"
  /\ Total(requirements) > 0
  /\ systemArchitecture # Null
  /\ LastMessage = Msg("assistant", "network_error")

\* C9: a failed generation (transport error or failure envelope) leaves the
\* store, the architecture and the chat log as they were and resets
\* isGeneratingArchitecture.
C9_FailedGenerationKeepsState ==
  [][(lastOp'[1] = "generateSystemArchitectureResume" /\ lastOp'[2] = "failure") =>
       /\ requirements' = requirements
       /\ systemArchitecture' = systemArchitecture
       /\ chatMessages' = chatMessages
       /\ ~isGeneratingArchitecture']_vars

\* a generation failed in a session that holds items and an architecture
C9_Witness ==
  /\ lastOp[1] = "generateSystemArchitectureResume"
  /\ lastOp[2] = "failure"
  /\ Total(requirements) > 0
  /\ systemArchitecture # Null
  /\ ~isGeneratingArchitecture

\* C10: an import of a file that is not valid JSON, has no requirements
\* object, or lacks a category or has one that is no sequence, leaves the
\* store and the architecture as they were, starts no timer and appends one
\* error message to the chat log.
C10_ImportRejectsMalformed ==
  [][(lastOp'[1] = "loadRequirementsFromJSON" /\ lastOp'[2] # "well_formed") =>
       /\ requirements' = requirements
       /\ systemArchitecture' = systemArchitecture
       /\ loadTimers' = loadTimers
       /\ chatMessages' = Append(chatMessages, Msg("assistant", "load_error"))]_vars

\* a file whose wishes are no array was rejected in a session that holds
\* items and an architecture
C10_Witness ==
  /\ lastOp[1] = "loadRequirementsFromJSON"
  /\ lastOp[2] = "category_not_array"
  /\ Total(requirements) > 0
  /\ systemArchitecture # Null
  /\ LastMessage = Msg("assistant", "load_error")

\* C11: generateSystemArchitecture() against a store that is empty in all five
\* categories sends no request and leaves isGeneratingArchitecture, the
\* architecture and the store as they are.
C11_RegenerateOnEmptyStoreIsNoOp ==
  [][(lastOp'[1] = "generateSystemArchitecture" /\ Total(requirements) = 0) =>
       /\ archFetches' = archFetches
       /\ isGeneratingArchitecture' = isGeneratingArchitecture
       /\ systemArchitecture' = systemArchitecture
       /\ requirements' = requirements]_vars

\* regeneration was requested for an empty store that has an architecture
\* (imported with it): nothing is in flight and the architecture is there
C11_Witness ==
  /\ lastOp[1] = "generateSystemArchitecture"
  /\ Total(requirements) = 0
  /\ systemArchitecture # Null
  /\ archFetches = <<>>
  /\ ~isGeneratingArchitecture

\* C12: a declined clearAllRequirements leaves the store, the architecture and
\* the chat log as they are.
C12_DeclinedClearChangesNothing ==
  [][(lastOp'[1] = "clearAllRequirements" /\ lastOp'[2] = "declined") =>
       /\ requirements' = requirements
       /\ systemArchitecture' = systemArchitecture
       /\ chatMessages' = chatMessages]_vars

\* the confirmation was declined in a session that holds items and an
\* architecture
C12_Witness ==
  /\ lastOp[1] = "clearAllRequirements"
  /\ lastOp[2] = "declined"
  /\ Total(requirements) > 0
  /\ systemArchitecture # Null

\* C13: on a successful extraction whose document has N items, with M the
\* total of the store when the message was sent, the chat log gets the
\* assistant's answer, followed by the data-loss warning exactly when M > 0
\* and 2 * N < M; the store becomes the document in both cases.
C13_WarningBelowHalf ==
  [][Resumed({"document"}) =>
       LET N == Total(lastOp'[4][1])
           M == Total(analyzeFetch[1].requirements)
       IN
       /\ requirements' = lastOp'[4][1]
       /\ chatMessages' =
            chatMessages \o <<Msg("assistant", "assistantResponse")>>
              \o (IF M > 0 /\ 2 * N < M
                  THEN <<Msg("assistant", "warning")>>
                  ELSE <<>>)]_vars

\* a document of one item replaced a store (of three items or more, then)
\* and the warning was appended
C13_Witness ==
  /\ lastOp[1] = "handleSendMessageResume"
  /\ lastOp[2] = "document"
  /\ LastMessage = Msg("assistant", "warning")
  /\ Total(lastOp[4][1]) = 1
  /\ requirements = lastOp[4][1]

\* the message has the piece
Contains(message, line) == \E k \in 1..Len(message) : message[k] = line

\* C14: for every completeness_score in 0..100 and every overall_status the
\* message has the passing judgement (hantei: goukaku) exactly when the score
\* is at least 50, and the judgement "to be reviewed" (hantei: you-kentou)
\* exactly when it is less.
C14_PassingFromFifty ==
  lastOp[1] = "generateChatMessage" =>
    /\ Contains(lastOp[4][1], Heading("judgement: pass")) <=> lastOp[3] >= 50
    /\ Contains(lastOp[4][1], Heading("judgement: review")) <=> lastOp[3] < 50

\* a score of exactly 50 with overall_status critical renders as passing
C14_Witness ==
  /\ lastOp[1] = "generateChatMessage"
  /\ lastOp[2] = "critical"
  /\ lastOp[3] = 50
  /\ Contains(lastOp[4][1], Heading("judgement: pass"))
  /\ ~Contains(lastOp[4][1], Heading("judgement: review"))

\* extraction and validation requests in flight
InFlight == (IF analyzeFetch # Null THEN 1 ELSE 0) + validateFetches

\* C15: isAnalyzing is true exactly while an extraction or a validation request
\* is in flight, at most one such request is in flight, no handleSendMessage
\* is accepted meanwhile, and every resolution (success, failure envelope,
\* exception) leaves the flag false.
C15_OneRequestUnderIsAnalyzing ==
  [][/\ InFlight' <= 1
     /\ isAnalyzing' <=> InFlight' = 1
     /\ (isAnalyzing /\ lastOp' # lastOp) => lastOp'[1] # "handleSendMessage"
     /\ lastOp'[1] \in {"handleSendMessageResume", "validateRequirementsResume"}
          => ~isAnalyzing']_vars

\* a validation request fails while no extraction request is in flight, and
\* the flag is false again
C15_Witness ==
  /\ lastOp[1] = "validateRequirementsResume"
  /\ lastOp[2] = "throw"
  /\ ~isAnalyzing
  /\ InFlight = 0

\* C16: across every operation (send, validate, export, import, clear-all,
\* delete, generation and the responses) the chat log of the successor state
\* has the log of the predecessor state as a prefix, and the greeting stays
\* first.
C16_ChatLogAppendOnly ==
  [][/\ Len(chatMessages') >= Len(chatMessages)
     /\ SubSeq(chatMessages', 1, Len(chatMessages)) = chatMessages
     /\ chatMessages'[1] = Greeting]_vars

\* the store is cleared after messages were logged, and the log is as before
C16_Witness ==
  /\ lastOp[1] = "clearAllRequirements"
  /\ lastOp[2] = "confirmed"
  /\ Len(chatMessages) >= 4
  /\ chatMessages[1] = Greeting
  /\ \E k \in 1..Len(chatMessages) : chatMessages[k] = Msg("assistant", "saved")
  /\ \E k \in 1..Len(chatMessages) : chatMessages[k] = Msg("assistant", "chatMessage")

\* C17: generation requests overlap, and every response that succeeds sets the
\* architecture to its own, whatever the order in which the requests were
\* issued: after two requests in flight have both succeeded the architecture
\* is that of the response that arrived last.
C17_LastArrivedResponseWins ==
  [][(lastOp'[1] = "generateSystemArchitectureResume" /\ lastOp'[2] = "success")
       => systemArchitecture' = lastOp'[4]]_vars

\* of two requests in flight the one issued second has been answered first:
\* its architecture is shown while the request issued first, which carries
\* another store, is still in flight
C17_Witness ==
  /\ lastOp[1] = "generateSystemArchitectureResume"
  /\ lastOp[2] = "success"
  /\ lastOp[3] = 2
  /\ Len(archFetches) = 1
  /\ archFetches[1].requirements # requirements
  /\ systemArchitecture = lastOp[4]

\* C18: in every state where no generation request is in flight, an
\* architecture that is present was computed from, or imported together
\* with, the current contents of the store.
C18_ArchitectureOfCurrentStore ==
  (archFetches = <<>> /\ systemArchitecture # Null) => archCurrent

\* C19: in every state, within each of the five categories no two items of
\* the store have the same identifier.
C19_UniqueIdsInCategory ==
  \A c \in CatSet :
    \A j, k \in 1..Len(requirements[c]) :
      j # k => requirements[c][j].id # requirements[c][k].id

\* C20: when every request in flight is eventually answered, isAnalyzing and
\* isGeneratingArchitecture return to false after every extraction, validation
\* and generation call, the failed ones included, so that sending and
\* regenerating are enabled again.
C20_FlagsReturnToFalse ==
  /\ isAnalyzing ~> ~isAnalyzing
  /\ isGeneratingArchitecture ~> ~isGeneratingArchitecture

\* a generation request has failed and both flags are false, with a store
\* that can be regenerated
C20_Witness ==
  /\ lastOp[1] = "generateSystemArchitectureResume"
  /\ lastOp[2] = "failure"
  /\ ~isAnalyzing
  /\ ~isGeneratingArchitecture
  /\ Total(requirements) > 0
  /\ \E k \in 1..Len(chatMessages) : chatMessages[k] = Msg("assistant", "validation_error")

\* the number a header of the text shows
ShownCount(text, template) ==
  {text[k][3] : k \in {j \in 1..Len(text) : text[j][1] = template}}

\* C21: the estimate request is the fixed placeholder exactly when the
\* architecture is absent or the store is empty in all five categories; in
\* every other state it is the full text, from its title to its closing, with
\* the three requirement headers and the architecture section, also when
\* categories or lists of the architecture are empty.
C21_PlaceholderIffNothingToEstimate ==
  /\ estimateTemplate = PlaceholderTemplate
       <=> (systemArchitecture = Null \/ Total(requirements) = 0)
  /\ (systemArchitecture # Null /\ Total(requirements) > 0) =>
       /\ estimateTemplate[1] = Heading("estimate request")
       /\ estimateTemplate[Len(estimateTemplate)] = Heading("closing")
       /\ \A template \in {"functional requirements", "non-functional requirements",
                            "constraints", "system components"} :
            ShownCount(estimateTemplate, template) # {}
       /\ \A template \in {"network requirements", "security measures",
                            "scalability considerations"} :
            Contains(estimateTemplate, Heading(template))

\* the store holds a wish only and the architecture has no component: the
\* full text is shown, with empty sections
C21_Witness ==
  /\ systemArchitecture # Null
  /\ systemArchitecture[1].components = <<>>
  /\ systemArchitecture[1].network_requirements = <<>>
  /\ Total(requirements) = 1
  /\ Len(requirements.wishes) = 1
  /\ estimateTemplate # PlaceholderTemplate
  /\ ShownCount(estimateTemplate, "functional requirements") = {0}

\* C22: the estimate request depends on the store and the architecture only:
\* a step that keeps both keeps the text, whatever it does to the chat log,
\* the flags and the selected architecture type; and each requirement header
\* of the text shows the number of items of its category.
C22_EstimateOfStoreAndArchitecture ==
  [][\A text \in {estimateTemplate'} :
     /\ (requirements' = requirements /\ systemArchitecture' = systemArchitecture)
          => text = estimateTemplate
     /\ text # PlaceholderTemplate =>
          /\ ShownCount(text, "functional requirements")
               = {Len(requirements'.functional_requirements)}
          /\ ShownCount(text, "non-functional requirements")
               = {Len(requirements'.non_functional_requirements)}
          /\ ShownCount(text, "constraints")
               = {Len(requirements'.constraints)}]_vars

\* the user has selected another type than the architecture's while a
\* validation is in flight and after a message was logged: the text is shown
C22_Witness ==
  /\ lastOp[1] = "setSelectedArchitectureType"
  /\ systemArchitecture # Null
  /\ lastOp[2] # systemArchitecture[1].architecture_type
  /\ isAnalyzing
  /\ LastMessage = Msg("assistant", "saved")
  /\ estimateTemplate # PlaceholderTemplate
  /\ ShownCount(estimateTemplate, "functional requirements") = {1}

\* C23: loading the file that was saved in a state S sets the store to the
\* store of S and the architecture to the architecture of S, absent when S
\* had none, whatever the state in which it is loaded.
C23_LoadRestoresSavedState ==
  [][(lastOp'[1] = "loadRequirementsFromJSON" /\ savedFile # Null) =>
       /\ requirements' = savedFile[1].requirements[1]
       /\ systemArchitecture' = savedFile[1].systemArchitecture]_vars

\* C24: in every state, a store that is empty in all five categories goes
\* with an absent architecture.
C24_EmptyStoreHasNoArchitecture ==
  Total(requirements) = 0 => systemArchitecture = Null

\* C25: no request in flight to the architecture oracle carries a store that
\* is empty in all five categories.
C25_NoRequestForEmptyStore ==
  \A i \in 1..Len(archFetches) : Total(archFetches[i].requirements) > 0

\* the identifiers of the items
Ids(items) == {items[k].id : k \in 1..Len(items)}

\* C26: additive merge: an item that is not in the store when the response
\* arrives, because it was removed or the store was cleared while the request
\* was in flight, is not in the store after the merge either, unless the
\* returned document has it.
C26_RemovedItemStaysRemoved ==
  [][Resumed({"document"}) =>
       \A c \in CatSet :
         Ids(requirements'[c]) \subseteq Ids(requirements[c]) \cup Ids(lastOp'[4][1][c])]_vars

\* C27: isGeneratingArchitecture is true in every state in which a generation
\* request is in flight, overlapping requests included.
C27_GeneratingWhileInFlight ==
  archFetches # <<>> => isGeneratingArchitecture

\* C28: validateRequirements on a store that is empty in all five categories
\* sends no request, appends the one fixed assistant message to the chat log
\* and does not touch isAnalyzing: a flag that is false stays false.
C28_NothingToValidate ==
  [][(lastOp'[1] = "validateRequirements" /\ Total(requirements) = 0) =>
       /\ validateFetches' = validateFetches
       /\ chatMessages' = Append(chatMessages, Msg("assistant", "nothing_to_validate"))
       /\ isAnalyzing' = isAnalyzing]_vars

\* validateRequirements has answered for an empty store, with no request in
\* flight and isAnalyzing false
C28_Witness ==
  /\ lastOp[1] = "validateRequirements"
  /\ Total(requirements) = 0
  /\ validateFetches = 0
  /\ ~isAnalyzing
  /\ LastMessage = Msg("assistant", "nothing_to_validate")

\* C29: validateRequirements, before and after its request and whatever the
\* answer, and saveRequirementsAsJSON change neither the store nor the
\* architecture nor the generation in flight; a validation changes
\* isAnalyzing and appends one message, when it returns for an empty store
\* or when its answer arrives; an export appends one message and keeps
\* isAnalyzing.
C29_ValidationAndExportFrame ==
  [][(lastOp'[1] \in {"validateRequirements", "validateRequirementsResume",
                      "saveRequirementsAsJSON"}) =>
       /\ UNCHANGED <<requirements, systemArchitecture, isGeneratingArchitecture,
                      selectedArchitectureType, analyzeFetch, archFetches, loadTimers>>
       /\ IF lastOp'[1] = "validateRequirements" /\ Total(requirements) > 0
          THEN chatMessages' = chatMessages
          ELSE /\ Len(chatMessages') = Len(chatMessages) + 1
               /\ SubSeq(chatMessages', 1, Len(chatMessages)) = chatMessages
       /\ lastOp'[1] = "saveRequirementsAsJSON" => isAnalyzing' = isAnalyzing]_vars

\* a validation has thrown and an export has been made in a session with a
\* store and an architecture
C29_Witness ==
  /\ lastOp[1] = "validateRequirementsResume"
  /\ lastOp[2] = "throw"
  /\ savedFile # Null
  /\ Total(requirements) > 0
  /\ systemArchitecture # Null

\* the messages appended by the step
Appended ==
  SubSeq(chatMessages', Len(chatMessages) + 1, Len(chatMessages'))

\* C30: a handleSendMessage that is accepted (text not blank, isAnalyzing
\* false) appends exactly one user message and issues the request; one that
\* is blank, of white space only or made while isAnalyzing changes nothing;
\* the response, whether it succeeds, is a failure envelope or throws,
\* appends at least one assistant message in the step that returns
\* isAnalyzing to false, and isAnalyzing is true until then; and when every
\* request resolves, that step follows every accepted message.
C30_UserMessageThenAssistantMessage ==
  /\ [][/\ (lastOp'[1] = "handleSendMessage" /\ lastOp'[2] = "") =>
            /\ ~isAnalyzing /\ analyzeFetch = Null
            /\ Len(Appended) = 1 /\ Appended[1].sender = "user"
            /\ Appended[1].content \in {StringOf(m) : m \in {t \in Messages : trim(t) # <<>>}}
            /\ SubSeq(chatMessages', 1, Len(chatMessages)) = chatMessages
            /\ analyzeFetch' # Null /\ isAnalyzing'
        /\ (lastOp'[1] = "handleSendMessage" /\ lastOp'[2] = "returned") =>
            UNCHANGED <<chatMessages, analyzeFetch, isAnalyzing, requirements>>
        /\ analyzeFetch' # Null => isAnalyzing'
        /\ (isAnalyzing /\ ~isAnalyzing') =>
            /\ lastOp'[1] = "handleSendMessageResume"
            /\ Len(Appended) >= 1
            /\ \A k \in 1..Len(Appended) : Appended[k].sender = "assistant"
            /\ SubSeq(chatMessages', 1, Len(chatMessages)) = chatMessages]_vars
  /\ (analyzeFetch # Null) ~> (~isAnalyzing /\ LastMessage.sender = "assistant")

\* a message of a letter after a space has been sent and its request has
\* thrown: the chat ends with the user message and the error message, and
\* isAnalyzing is false
C30_Witness ==
  /\ lastOp[1] = "handleSendMessageResume"
  /\ lastOp[2] = "throw"
  /\ ~isAnalyzing
  /\ Len(chatMessages) >= 3
  /\ chatMessages[Len(chatMessages) - 1] = Msg("user", " t")
  /\ LastMessage = Msg("assistant", "network_error")

====
